---- MODULE Spec2Model ----
(***************************************************************************)
(* Model of the WebSocket client of AsepriteDebugger                        *)
(* (src/LuaWebsocket/WebSocket.h, WebSocket.cpp) with its two execution     *)
(* paths: the caller path, which runs connect / close / receive /          *)
(* hasMessage / isConnected statement by statement, and the network path   *)
(* (m_run_thread running Client::run), which drives the handshake, invokes *)
(* onMessage for every inbound frame and finishes when the connection is   *)
(* closed.  The peer is the websocket server of tests/LuaWebSocketTests.    *)
(*                                                                         *)
(* Usage assumed of the caller: connect() is called when there is no       *)
(* connection or the connection is closed, and close() / receive() are     *)
(* called on a client whose connect() produced a connection handle.        *)
(*                                                                         *)
(* m_messages is a std::queue shared by both paths without any lock.  A     *)
(* pop on the caller path that overlaps a push on the network path is a    *)
(* data race; either write may be lost (RacedPop, RacedPush).  A           *)
(* dereference of the null m_connection either kills the process or yields *)
(* garbage.                                                                *)
(***************************************************************************)
EXTENDS Integers, Sequences, FiniteSets, TLC

\* ------------------------------------------------------------- bounds ----
MaxSess == 2      \* connect() calls made by the caller
MaxMsgs == 2      \* text frames the peer sends within one connection
MaxSend == 2      \* texts the caller passes to send() within one connection

\* ------------------------------------------------------------- values ----
NoConn == 0                       \* m_connection holds no connection (nullptr)
NoMsg == <<0, 0>>                 \* "no message" placeholder
CloseFrame == <<0, 1>>            \* close frame sent by the peer
Msg == (1..(MaxSess + 1)) \X (1..(MaxMsgs + 1))   \* <<connection, ordinal>>
States == {"connecting", "open", "closing", "closed"}
Uris == {"ok", "unreachable", "malformed"}

VARIABLES
  pc,            \* statement the caller path is at ("idle": between calls)
  m_connection,  \* NoConn, or the number of the connection the handle refers to
  state,         \* m_connection->get_state(); "none" when there is no handle
  m_run_thread,  \* "none" | "running" | "finished" | "joined"
  m_messages,    \* the inbound queue
  target,        \* kind of uri given to the current connect()
  handlerSet,    \* set_message_handler has been called on the connection
  openRequested, \* m_client.connect(m_connection) has been called
  sess,          \* number of connect() calls so far
  inflight,      \* frames sent by the peer, not yet processed by the runner
  pushing,       \* payload onMessage is appending right now (NoMsg: none)
  raced,         \* the push in progress overlapped a pop of the caller
  peerOpened,    \* the peer's open handler has run
  peerClosing,   \* the peer has sent its close frame
  peerClosedObs, \* the peer's close handler has run
  peerSent,      \* frames sent by the peer in this connection
  nDelivered,    \* onMessage invocations completed in this connection
  returned,      \* non-empty values returned by receive() in this connection
  lastOp,        \* operation that returned last
  lastRes,       \* how it returned: "ok" "error" "none" "msg" "true" "false"
  lastMsg,       \* message returned by the last receive(), or NoMsg
  callHas,       \* hasMessage() in the state receive() was called in
  callConn,      \* connection not closed in the state receive() was called in
  callHead,      \* front of the queue in the state receive() was called in
  slept,         \* the current/last receive() has suspended at least once
  intervened,    \* the network path acted before receive() decided
  closeCalled,   \* close() was called on this connection
  closeCompleted,     \* close() returned normally on this connection
  prevCloseCompleted, \* close() returned normally on the previous connection
  purged,        \* messages discarded by the last completed close()
  atConnect,     \* the queue as connect() found it
  outflight,     \* frames written by send() / close(), not yet read by the peer
  nSent,         \* texts accepted by send() in this connection
  peerReceived,  \* payloads the peer's message handler has observed
  pendingAtClose,\* a sent text was still in flight when close() was called
  dtor,          \* the caller path is inside ~WebSocket
  dtorConn,      \* isConnected() was true when ~WebSocket tested it
  nullDeref,     \* an operation went through the null m_connection
  dropped        \* frames the engine read while no message handler was set

vars == <<pc, m_connection, state, m_run_thread, m_messages, target, handlerSet,
          openRequested, sess, inflight, pushing, raced, peerOpened,
          peerClosing, peerClosedObs, peerSent, nDelivered, returned, lastOp,
          lastRes, lastMsg, callHas, callConn, callHead, slept, intervened,
          closeCalled, closeCompleted, prevCloseCompleted, purged, atConnect,
          outflight, nSent, peerReceived, pendingAtClose, dtor, dtorConn,
          nullDeref, dropped>>

callerVars == <<pc, lastOp, lastRes, lastMsg>>
connVars == <<m_connection, state, target, handlerSet, openRequested, sess>>
peerVars == <<inflight, peerOpened, peerClosing, peerClosedObs, peerSent>>
pushVars == <<pushing, raced, nDelivered>>
recvGhost == <<callHas, callConn, callHead, slept, intervened>>
closeGhost == <<closeCalled, closeCompleted, prevCloseCompleted, purged, atConnect>>
sendVars == <<outflight, nSent, peerReceived, pendingAtClose>>
dtorVars == <<dtor, dtorConn>>

\* ---------------------------------------------------- pure functions ----
\* hasMessage that ignores the size of the queue
hasMessageAlways(q) == Len(q) >= 0

\* WebSocket::hasMessage
hasMessage(q) == Len(q) > 0

\* isConnected that never reports closure
isConnectedAlways(st) == st \in States

\* isConnected that reports only an open connection
isConnectedOpenOnly(st) == st = "open"

\* WebSocket::isConnected on an existing connection
isConnected(st) == st # "closed"

\* std::thread::joinable
joinable(t) == t \in {"running", "finished"}

\* a close() that leaves the queue as it is
PurgeKeep(q) == q

\* m_messages = {} in close()
Purge(q) == <<>>

\* m_messages.push(payload) in onMessage
Push(q, m) == Append(q, m)

\* m_messages.front() / m_messages.pop() in receive()
Front(q) == Head(q)
Pop(q) == Tail(q)

\* m_messages has no lock: a pop of the caller path that overlaps a push of
\* the network path is a data race.  Either write may be lost.
RacedPop(q) == {Pop(q), q}
RacedPush(q, m) == {Push(q, m), q}

\* a close request that drops what send() left pending
EnqueueCloseOnly(q) == <<CloseFrame>>

\* the engine queues the close frame of close() behind the pending messages
EnqueueClose(q) == Append(q, CloseFrame)

\* m_connection->send(msg): the engine queues the text frame
EnqueueText(q, m) == Append(q, m)

\* texts accepted by send() in the current connection, in order
SentTexts == [i \in 1..nSent |-> <<m_connection, i>>]

IsText(f) == f # CloseFrame
\* the texts accepted by send() that the peer has not read yet
Pending == SelectSeq(outflight, IsText)
TextsIn(q) == {i \in DOMAIN q : q[i] # CloseFrame}

\* payloads appended by onMessage in the current connection, in order
Delivered == [i \in 1..nDelivered |-> <<m_connection, i>>]

\* the messages of the current connection that are in the queue, in order
FromCurrent(m) == m[1] = m_connection
Queued == SelectSeq(m_messages, FromCurrent)

IsPrefix(s, t) == Len(s) <= Len(t) /\ \A i \in 1..Len(s) : s[i] = t[i]

InReceive == pc \in {"recv_has", "recv_conn", "recv_43", "recv_48"}
InConnect == pc \in {"connect_19", "connect_21", "connect_23", "connect_25"}
Alive == pc # "crashed"

\* --------------------------------------------------------------- Init ----
\* WebSocket::WebSocket: asio initialised, no connection, no thread, no messages
Init ==
  /\ pc = "idle" /\ m_connection = NoConn /\ state = "none"
  /\ m_run_thread = "none" /\ m_messages = <<>> /\ target = "ok"
  /\ handlerSet = FALSE /\ openRequested = FALSE /\ sess = 0
  /\ inflight = <<>> /\ pushing = NoMsg /\ raced = FALSE
  /\ peerOpened = FALSE /\ peerClosing = FALSE /\ peerClosedObs = FALSE
  /\ peerSent = 0 /\ nDelivered = 0 /\ returned = <<>>
  /\ lastOp = "none" /\ lastRes = "ok" /\ lastMsg = NoMsg
  /\ callHas = FALSE /\ callConn = FALSE /\ callHead = NoMsg
  /\ slept = FALSE /\ intervened = FALSE
  /\ closeCalled = FALSE /\ closeCompleted = FALSE
  /\ prevCloseCompleted = FALSE /\ purged = 0 /\ atConnect = <<>>
  /\ outflight = <<>> /\ nSent = 0 /\ peerReceived = <<>>
  /\ pendingAtClose = FALSE /\ dtor = FALSE /\ dtorConn = FALSE
  /\ nullDeref = FALSE /\ dropped = 0

\* the operation the caller is in returns
Return(op, res, msg) ==
  /\ pc' = "idle" /\ lastOp' = op /\ lastRes' = res /\ lastMsg' = msg

\* an operation is entered: the result of the previous one is gone
Called == lastOp' = "none" /\ lastRes' = "ok" /\ lastMsg' = NoMsg

\* bookkeeping of the last receive() is dropped when another operation starts
ForgetReceive ==
  /\ callHas' = FALSE /\ callConn' = FALSE /\ callHead' = NoMsg
  /\ slept' = FALSE /\ intervened' = FALSE

\* the process is killed (std::terminate, or a fault on a null dereference)
Crash == pc' = "crashed" /\ UNCHANGED <<lastOp, lastRes, lastMsg>>

\* ------------------------------------------------------ connect(uri) ----
\* WebSocket.cpp:11-17  m_connection = m_client.get_connection(uri, err);
\* on a resolution error the message is printed and connect() goes on.
ConnectGet(uri) ==
  /\ pc = "idle" /\ sess < MaxSess
  /\ m_connection = NoConn \/ state = "closed"
  /\ sess' = sess + 1
  /\ target' = uri
  /\ IF uri = "malformed"
       THEN m_connection' = NoConn /\ state' = "none"
       ELSE m_connection' = sess + 1 /\ state' = "connecting"
  /\ handlerSet' = FALSE /\ openRequested' = FALSE
  /\ inflight' = <<>> /\ peerOpened' = FALSE /\ peerClosing' = FALSE
  /\ peerClosedObs' = FALSE /\ peerSent' = 0
  /\ nDelivered' = 0 /\ returned' = <<>>
  /\ closeCalled' = FALSE /\ closeCompleted' = FALSE
  /\ prevCloseCompleted' = closeCompleted
  /\ atConnect' = m_messages
  /\ pc' = "connect_19"
  /\ Called /\ ForgetReceive
  /\ UNCHANGED <<m_run_thread, m_messages, pushing, raced, purged>>
  /\ outflight' = <<>> /\ nSent' = 0 /\ peerReceived' = <<>>
  /\ pendingAtClose' = FALSE /\ dropped' = 0
  /\ UNCHANGED <<dtorVars, nullDeref>>

\* WebSocket.cpp:19  m_connection->set_message_handler(bind(onMessage))
ConnectSetHandler ==
  /\ pc = "connect_19"
  /\ IF m_connection = NoConn
       THEN (Crash \/ (pc' = "connect_21" /\ UNCHANGED <<lastOp, lastRes, lastMsg>>))
            /\ UNCHANGED handlerSet
       ELSE /\ handlerSet' = TRUE
            /\ pc' = "connect_21" /\ UNCHANGED <<lastOp, lastRes, lastMsg>>
  /\ UNCHANGED <<m_connection, state, target, openRequested, sess, m_run_thread,
                 m_messages, peerVars, pushVars, returned, recvGhost, closeGhost>>
  /\ nullDeref' = (nullDeref \/ m_connection = NoConn)
  /\ UNCHANGED <<sendVars, dtorVars, dropped>>

\* WebSocket.cpp:21  m_client.connect(m_connection)
ConnectOpen ==
  /\ pc = "connect_21"
  /\ IF m_connection = NoConn
       THEN (Crash \/ (pc' = "connect_23" /\ UNCHANGED <<lastOp, lastRes, lastMsg>>))
            /\ UNCHANGED openRequested
       ELSE /\ openRequested' = TRUE
            /\ pc' = "connect_23" /\ UNCHANGED <<lastOp, lastRes, lastMsg>>
  /\ UNCHANGED <<m_connection, state, target, handlerSet, sess, m_run_thread,
                 m_messages, peerVars, pushVars, returned, recvGhost, closeGhost>>
  /\ nullDeref' = (nullDeref \/ m_connection = NoConn)
  /\ UNCHANGED <<sendVars, dtorVars, dropped>>

\* WebSocket.cpp:23  m_run_thread = std::thread(&Client::run, &m_client);
\* move-assignment to a joinable std::thread calls std::terminate.
ConnectStartThread ==
  /\ pc = "connect_23"
  /\ IF joinable(m_run_thread)
       THEN Crash /\ UNCHANGED m_run_thread
       ELSE /\ m_run_thread' = "running"
            /\ pc' = "connect_25" /\ UNCHANGED <<lastOp, lastRes, lastMsg>>
  /\ UNCHANGED <<connVars, m_messages, peerVars, pushVars, returned, recvGhost,
                 closeGhost>>
  /\ UNCHANGED <<sendVars, dtorVars, nullDeref, dropped>>

\* a wait loop that never waits
ConnectWaitsNever(st) == st \notin States

\* WebSocket.cpp:25  loop condition of the blocking wait
ConnectWaits(st) == st = "connecting"

\* WebSocket.cpp:25-27  while (get_state() == connecting) sleep_for(...);
\* the sleeping iteration leaves the state as it is (a stuttering step).
ConnectWait ==
  /\ pc = "connect_25"
  /\ IF m_connection = NoConn
       THEN \/ Crash
            \/ \E g \in States : ~ConnectWaits(g) /\ Return("connect", "ok", NoMsg)
       ELSE ~ConnectWaits(state) /\ Return("connect", "ok", NoMsg)
  /\ UNCHANGED <<connVars, m_run_thread, m_messages, peerVars, pushVars,
                 returned, recvGhost, closeGhost>>
  /\ nullDeref' = (nullDeref \/ m_connection = NoConn)
  /\ UNCHANGED <<sendVars, dtorVars, dropped>>

\* ------------------------------------------------------------ close() ----
\* WebSocket.cpp:31  m_connection->close(normal, "").  The engine accepts the
\* request on an open connection (which becomes closing) and throws
\* websocketpp::exception otherwise; LuaWebSocket.cpp:81-90 catches it.
CloseRequest ==
  /\ pc = "idle" /\ m_connection # NoConn
  /\ IF state = "open"
       THEN /\ state' = "closing" /\ closeCalled' = TRUE
            /\ outflight' = EnqueueClose(outflight)
            /\ pendingAtClose' = (TextsIn(outflight) # {})
            /\ pc' = "close_32" /\ Called
       ELSE /\ Return("close", "error", NoMsg)
            /\ UNCHANGED <<state, closeCalled, outflight, pendingAtClose>>
  /\ ForgetReceive
  /\ UNCHANGED <<nSent, peerReceived, dtorVars, nullDeref, dropped>>
  /\ UNCHANGED <<m_connection, target, handlerSet, openRequested, sess,
                 m_run_thread, m_messages, peerVars, pushVars, returned,
                 closeCompleted, prevCloseCompleted, purged, atConnect>>

\* close() without line 32: it does not wait for Client::run
CloseJoinSkip ==
  /\ pc = "close_32"
  /\ pc' = "close_35"
  /\ UNCHANGED <<lastOp, lastRes, lastMsg, m_run_thread>>
  /\ UNCHANGED <<connVars, m_messages, peerVars, pushVars, returned, recvGhost,
                 closeGhost>>
  /\ UNCHANGED <<sendVars, dtorVars, nullDeref, dropped>>

\* WebSocket.cpp:32  m_run_thread.join(): waits for Client::run to return
CloseJoin ==
  /\ pc = "close_32"
  /\ m_run_thread # "running"
  /\ IF m_run_thread = "finished"
       THEN /\ m_run_thread' = "joined"
            /\ pc' = "close_35" /\ UNCHANGED <<lastOp, lastRes, lastMsg>>
       ELSE Crash /\ UNCHANGED m_run_thread
  /\ UNCHANGED <<connVars, m_messages, peerVars, pushVars, returned, recvGhost,
                 closeGhost>>
  /\ UNCHANGED <<sendVars, dtorVars, nullDeref, dropped>>

\* a close() that purges and returns in place of the join of line 32
ClosePurgeUnjoined ==
  /\ pc = "close_32"
  /\ m_messages' = Purge(m_messages)
  /\ purged' = Len(m_messages)
  /\ closeCompleted' = TRUE
  /\ IF dtor
       THEN pc' = "dtor_members" /\ UNCHANGED <<lastOp, lastRes, lastMsg>>
       ELSE Return("close", "ok", NoMsg)
  /\ UNCHANGED <<connVars, m_run_thread, peerVars, pushVars, returned,
                 recvGhost, closeCalled, prevCloseCompleted, atConnect>>
  /\ UNCHANGED <<sendVars, dtorVars, nullDeref, dropped>>

\* WebSocket.cpp:34-36  m_messages = {}; then close() returns, to its
\* caller or into ~WebSocket (WebSocket.h:25)
ClosePurge ==
  /\ pc = "close_35"
  /\ m_messages' = Purge(m_messages)
  /\ purged' = Len(m_messages)
  /\ closeCompleted' = TRUE
  /\ IF dtor
       THEN pc' = "dtor_members" /\ UNCHANGED <<lastOp, lastRes, lastMsg>>
       ELSE Return("close", "ok", NoMsg)
  /\ UNCHANGED <<connVars, m_run_thread, peerVars, pushVars, returned,
                 recvGhost, closeCalled, prevCloseCompleted, atConnect>>
  /\ UNCHANGED <<sendVars, dtorVars, nullDeref, dropped>>

\* ---------------------------------------------------------- receive() ----
\* WebSocket.cpp:40  first operand of the loop condition: !hasMessage().
\* The call and the first evaluation are one step; later evaluations follow
\* a sleep.
ReceiveCall ==
  /\ pc = "idle" /\ m_connection # NoConn
  /\ callHas' = hasMessage(m_messages)
  /\ callConn' = (state # "closed")
  /\ callHead' = IF m_messages = <<>> THEN NoMsg ELSE Head(m_messages)
  /\ slept' = FALSE /\ intervened' = FALSE
  /\ pc' = IF hasMessage(m_messages) THEN "recv_43" ELSE "recv_conn"
  /\ Called
  /\ UNCHANGED <<connVars, m_run_thread, m_messages,
                 peerVars, pushVars, returned, closeGhost>>
  /\ UNCHANGED <<sendVars, dtorVars, nullDeref, dropped>>

\* WebSocket.cpp:40  !hasMessage() evaluated again after a sleep
ReceiveLoopHas ==
  /\ pc = "recv_has"
  /\ pc' = IF hasMessage(m_messages) THEN "recv_43" ELSE "recv_conn"
  /\ UNCHANGED <<lastOp, lastRes, lastMsg, connVars, m_run_thread, m_messages,
                 peerVars, pushVars, returned, recvGhost, closeGhost>>
  /\ UNCHANGED <<sendVars, dtorVars, nullDeref, dropped>>

\* a loop that is left without ever sleeping
ReceiveLoopConnNoSleep ==
  /\ pc = "recv_conn"
  /\ pc' = "recv_43"
  /\ UNCHANGED <<lastOp, lastRes, lastMsg, connVars, m_run_thread, m_messages,
                 peerVars, pushVars, returned, recvGhost, closeGhost>>
  /\ UNCHANGED <<sendVars, dtorVars, nullDeref, dropped>>

\* WebSocket.cpp:40-41  second operand isConnected(); if true, sleep_for(...)
ReceiveLoopConn ==
  /\ pc = "recv_conn"
  /\ IF isConnected(state)
       THEN pc' = "recv_has" /\ slept' = TRUE
       ELSE pc' = "recv_43" /\ UNCHANGED slept
  /\ UNCHANGED <<lastOp, lastRes, lastMsg, connVars, m_run_thread, m_messages,
                 peerVars, pushVars, returned, callHas, callConn, callHead,
                 intervened, closeGhost>>
  /\ UNCHANGED <<sendVars, dtorVars, nullDeref, dropped>>

\* receive() without the check of lines 43-46
ReceiveCheckClosedSkip ==
  /\ pc = "recv_43"
  /\ pc' = "recv_48" /\ UNCHANGED <<lastOp, lastRes, lastMsg>>
  /\ UNCHANGED <<connVars, m_run_thread, m_messages, peerVars, pushVars,
                 returned, recvGhost, closeGhost>>
  /\ UNCHANGED <<sendVars, dtorVars, nullDeref, dropped>>

\* WebSocket.cpp:43-46  if (!isConnected()) return {};
ReceiveCheckClosed ==
  /\ pc = "recv_43"
  /\ IF ~isConnected(state)
       THEN Return("receive", "none", NoMsg)
       ELSE pc' = "recv_48" /\ UNCHANGED <<lastOp, lastRes, lastMsg>>
  /\ UNCHANGED <<connVars, m_run_thread, m_messages, peerVars, pushVars,
                 returned, recvGhost, closeGhost>>
  /\ UNCHANGED <<sendVars, dtorVars, nullDeref, dropped>>

\* WebSocket.cpp:48-51  msg = m_messages.front(); m_messages.pop(); return msg;
\* front() of an empty queue is undefined: the process faults or a garbage
\* string is returned.  A pop overlapping onMessage's push is a data race.
ReceiveDequeue ==
  /\ pc = "recv_48"
  /\ IF m_messages = <<>>
       THEN /\ \/ Crash /\ UNCHANGED returned
               \/ \E g \in Msg : /\ Return("receive", "msg", g)
                                 /\ returned' = Append(returned, g)
            /\ UNCHANGED <<m_messages, raced>>
       ELSE /\ Return("receive", "msg", Front(m_messages))
            /\ returned' = Append(returned, Front(m_messages))
            /\ IF pushing # NoMsg /\ ~raced
                 THEN /\ m_messages' \in RacedPop(m_messages)
                      /\ raced' = TRUE
                 ELSE /\ m_messages' = Pop(m_messages)
                      /\ UNCHANGED raced
  /\ UNCHANGED <<connVars, m_run_thread, peerVars, pushing, nDelivered,
                 recvGhost, closeGhost>>
  /\ UNCHANGED <<sendVars, dtorVars, nullDeref, dropped>>

\* ------------------------------------------- hasMessage(), isConnected() ----
\* WebSocket.h:53-54
HasMessageCall ==
  /\ pc = "idle"
  /\ Return("hasMessage", IF hasMessage(m_messages) THEN "true" ELSE "false", NoMsg)
  /\ ForgetReceive
  /\ UNCHANGED <<connVars, m_run_thread, m_messages, peerVars, pushVars,
                 returned, closeGhost>>
  /\ UNCHANGED <<sendVars, dtorVars, nullDeref, dropped>>

\* WebSocket.h:33-34  reads through m_connection, null before the first connect
IsConnectedCall ==
  /\ pc = "idle"
  /\ IF m_connection = NoConn
       THEN \/ Crash
            \/ \E g \in {"true", "false"} : Return("isConnected", g, NoMsg)
       ELSE Return("isConnected", IF isConnected(state) THEN "true" ELSE "false", NoMsg)
  /\ ForgetReceive
  /\ UNCHANGED <<connVars, m_run_thread, m_messages, peerVars, pushVars,
                 returned, closeGhost>>
  /\ nullDeref' = (nullDeref \/ m_connection = NoConn)
  /\ UNCHANGED <<sendVars, dtorVars, dropped>>

\* ----------------------------------------------------------- send(msg) ----
\* WebSocket.h:38-39  m_connection->send(msg).  The engine queues the frame
\* on an open connection and throws websocketpp::exception otherwise
\* (caught at LuaWebSocket.cpp:110-118); send() does not wait for delivery.
SendCall ==
  /\ pc = "idle" /\ m_connection # NoConn /\ nSent < MaxSend
  /\ IF state = "open"
       THEN /\ outflight' = EnqueueText(outflight, <<m_connection, nSent + 1>>)
            /\ nSent' = nSent + 1
            /\ Return("send", "ok", NoMsg)
       ELSE /\ Return("send", "error", NoMsg)
            /\ UNCHANGED <<outflight, nSent>>
  /\ ForgetReceive
  /\ UNCHANGED <<connVars, m_run_thread, m_messages, peerVars, pushVars,
                 returned, closeGhost, peerReceived, pendingAtClose,
                 dtorVars, nullDeref, dropped>>

\* ---------------------------------------------------------- ~WebSocket ----
\* a destructor that tests isConnected() and does not call close()
DestroyNoClose ==
  /\ pc = "idle"
  /\ dtor' = TRUE
  /\ nullDeref' = (nullDeref \/ m_connection = NoConn)
  /\ IF m_connection = NoConn
       THEN (Crash \/ (pc' = "dtor_members" /\ Called)) /\ UNCHANGED dtorConn
       ELSE dtorConn' = isConnected(state) /\ pc' = "dtor_members" /\ Called
  /\ ForgetReceive
  /\ UNCHANGED <<connVars, m_run_thread, m_messages, peerVars, pushVars,
                 returned, closeGhost, sendVars, dropped>>

\* LuaWebSocket.cpp:195-200 (__gc: delete ws) and WebSocket.h:24-25
\* if (isConnected()) close();
Destroy ==
  /\ pc = "idle"
  /\ dtor' = TRUE
  /\ nullDeref' = (nullDeref \/ m_connection = NoConn)
  /\ IF m_connection = NoConn
       THEN /\ \/ Crash
               \/ pc' \in {"dtor_close_31", "dtor_members"} /\ Called
            /\ UNCHANGED dtorConn
       ELSE /\ dtorConn' = isConnected(state)
            /\ pc' = IF isConnected(state) THEN "dtor_close_31" ELSE "dtor_members"
            /\ Called
  /\ ForgetReceive
  /\ UNCHANGED <<connVars, m_run_thread, m_messages, peerVars, pushVars,
                 returned, closeGhost, sendVars, dropped>>

\* WebSocket.cpp:31 reached from the destructor: an exception thrown by the
\* engine leaves a noexcept destructor, which calls std::terminate
DtorCloseRequest ==
  /\ pc = "dtor_close_31"
  /\ IF state = "open"
       THEN /\ state' = "closing" /\ closeCalled' = TRUE
            /\ outflight' = EnqueueClose(outflight)
            /\ pendingAtClose' = (TextsIn(outflight) # {})
            /\ pc' = "close_32" /\ UNCHANGED <<lastOp, lastRes, lastMsg>>
       ELSE /\ Crash
            /\ UNCHANGED <<state, closeCalled, outflight, pendingAtClose>>
  /\ nullDeref' = (nullDeref \/ m_connection = NoConn)
  /\ UNCHANGED <<m_connection, target, handlerSet, openRequested, sess,
                 m_run_thread, m_messages, peerVars, pushVars, returned,
                 recvGhost, closeCompleted, prevCloseCompleted, purged,
                 atConnect, nSent, peerReceived, dtorVars, dropped>>

\* WebSocket.h:57-61  the members are destroyed; ~thread of a joinable
\* m_run_thread calls std::terminate
DtorMembers ==
  /\ pc = "dtor_members"
  /\ IF joinable(m_run_thread)
       THEN Crash
       ELSE pc' = "destroyed" /\ UNCHANGED <<lastOp, lastRes, lastMsg>>
  /\ UNCHANGED <<connVars, m_run_thread, m_messages, peerVars, pushVars,
                 returned, recvGhost, closeGhost, sendVars, dtorVars,
                 nullDeref, dropped>>

\* ------------------------------------------------------- network path ----
Running == Alive /\ m_run_thread = "running"
Touch == intervened' = (intervened \/ (InReceive /\ ~slept))

\* the peer accepts the connection: its open handler runs (test.cpp:23-25)
PeerAccept ==
  /\ Running /\ state = "connecting" /\ target = "ok"
  /\ openRequested /\ ~peerOpened
  /\ peerOpened' = TRUE
  /\ UNCHANGED <<callerVars, connVars, m_run_thread, m_messages, inflight,
                 peerClosing, peerClosedObs, peerSent, pushVars, returned,
                 recvGhost, closeGhost>>
  /\ UNCHANGED <<sendVars, dtorVars, nullDeref, dropped>>

\* Client::run completes the handshake: connecting -> open
RunnerHandshakeOpen ==
  /\ Running /\ pushing = NoMsg /\ state = "connecting" /\ peerOpened
  /\ state' = "open"
  /\ UNCHANGED <<callerVars, m_connection, target, handlerSet, openRequested,
                 sess, m_run_thread, m_messages, peerVars, pushVars, returned,
                 recvGhost, closeGhost>>
  /\ UNCHANGED <<sendVars, dtorVars, nullDeref, dropped>>

\* Client::run fails to reach the target: connecting -> closed
RunnerHandshakeFail ==
  /\ Running /\ state = "connecting" /\ target = "unreachable" /\ openRequested
  /\ state' = "closed"
  /\ UNCHANGED <<callerVars, m_connection, target, handlerSet, openRequested,
                 sess, m_run_thread, m_messages, peerVars, pushVars, returned,
                 recvGhost, closeGhost>>
  /\ UNCHANGED <<sendVars, dtorVars, nullDeref, dropped>>

\* the peer sends a text frame (test.cpp:67-70 sends one from its open handler)
PeerSend ==
  /\ Alive /\ peerOpened /\ ~peerClosing /\ ~peerClosedObs
  /\ state \in {"connecting", "open"} /\ peerSent < MaxMsgs
  /\ peerSent' = peerSent + 1
  /\ inflight' = Append(inflight, <<m_connection, peerSent + 1>>)
  /\ UNCHANGED <<callerVars, connVars, m_run_thread, m_messages, peerOpened,
                 peerClosing, peerClosedObs, pushVars, returned, recvGhost,
                 closeGhost>>
  /\ UNCHANGED <<sendVars, dtorVars, nullDeref, dropped>>

\* the peer closes the connection
PeerClose ==
  /\ Alive /\ peerOpened /\ ~peerClosing /\ ~peerClosedObs
  /\ state \in {"connecting", "open", "closing"}
  /\ peerClosing' = TRUE
  /\ inflight' = Append(inflight, CloseFrame)
  /\ UNCHANGED <<callerVars, connVars, m_run_thread, m_messages, peerOpened,
                 peerClosedObs, peerSent, pushVars, returned, recvGhost,
                 closeGhost>>
  /\ UNCHANGED <<sendVars, dtorVars, nullDeref, dropped>>

\* the engine reads a text frame on an open connection and invokes the
\* message handler registered at WebSocket.cpp:19; with no handler registered
\* the frame is discarded
onMessageBegin ==
  /\ Running /\ state = "open" /\ pushing = NoMsg
  /\ inflight # <<>> /\ Head(inflight) # CloseFrame
  /\ IF handlerSet
       THEN pushing' = Head(inflight) /\ UNCHANGED dropped
       ELSE dropped' = dropped + 1 /\ UNCHANGED pushing
  /\ inflight' = Tail(inflight)
  /\ UNCHANGED <<callerVars, connVars, m_run_thread, m_messages, peerOpened,
                 peerClosing, peerClosedObs, peerSent, raced, nDelivered,
                 returned, recvGhost, closeGhost>>
  /\ UNCHANGED <<sendVars, dtorVars, nullDeref>>

\* WebSocket.h:63-64  m_messages.push(msg->get_payload())
onMessage ==
  /\ Running /\ pushing # NoMsg
  /\ IF raced
       THEN m_messages' \in RacedPush(m_messages, pushing)
       ELSE m_messages' = Push(m_messages, pushing)
  /\ pushing' = NoMsg /\ raced' = FALSE
  /\ nDelivered' = nDelivered + 1
  /\ Touch
  /\ UNCHANGED <<callerVars, connVars, m_run_thread, peerVars, returned,
                 callHas, callConn, callHead, slept, closeGhost>>
  /\ UNCHANGED <<sendVars, dtorVars, nullDeref, dropped>>

\* the engine reads the peer's close frame: -> closed
RunnerPeerClose ==
  /\ Running /\ pushing = NoMsg /\ state \in {"open", "closing"}
  /\ inflight # <<>> /\ Head(inflight) = CloseFrame
  /\ state' = "closed"
  /\ inflight' = <<>>
  /\ peerClosedObs' = TRUE
  /\ Touch
  /\ UNCHANGED <<callerVars, m_connection, target, handlerSet, openRequested,
                 sess, m_run_thread, m_messages, peerOpened, peerClosing,
                 peerSent, pushVars, returned, callHas, callConn, callHead,
                 slept, closeGhost>>
  /\ outflight' = <<>>
  /\ UNCHANGED <<nSent, peerReceived, pendingAtClose, dtorVars, nullDeref, dropped>>

\* the peer reads a text frame: its message handler observes the payload
\* (test.cpp:31-33), unless the peer has started or finished closing
PeerReceive ==
  /\ Running /\ state \in {"open", "closing"}
  /\ outflight # <<>> /\ Head(outflight) # CloseFrame
  /\ outflight' = Tail(outflight)
  /\ peerReceived' = IF peerClosing \/ peerClosedObs
                       THEN peerReceived
                       ELSE Append(peerReceived, Head(outflight))
  /\ UNCHANGED <<callerVars, connVars, m_run_thread, m_messages, peerVars,
                 pushVars, returned, recvGhost, closeGhost, nSent,
                 pendingAtClose, dtorVars, nullDeref, dropped>>

\* the peer reads the close frame of close(): its close handler runs
PeerObserveClose ==
  /\ Alive /\ state = "closing" /\ ~peerClosedObs
  /\ outflight # <<>> /\ Head(outflight) = CloseFrame
  /\ outflight' = Tail(outflight)
  /\ peerClosedObs' = TRUE
  /\ UNCHANGED <<nSent, peerReceived, pendingAtClose, dtorVars, nullDeref, dropped>>
  /\ UNCHANGED <<callerVars, connVars, m_run_thread, m_messages, inflight,
                 peerOpened, peerClosing, peerSent, pushVars, returned,
                 recvGhost, closeGhost>>

\* the engine reads the peer's acknowledgement of close(): closing -> closed
RunnerCloseAck ==
  /\ Running /\ pushing = NoMsg /\ state = "closing" /\ peerClosedObs
  /\ state' = "closed"
  /\ inflight' = <<>>
  /\ UNCHANGED <<callerVars, m_connection, target, handlerSet, openRequested,
                 sess, m_run_thread, m_messages, peerOpened, peerClosing,
                 peerClosedObs, peerSent, pushVars, returned, recvGhost,
                 closeGhost>>
  /\ outflight' = <<>>
  /\ UNCHANGED <<nSent, peerReceived, pendingAtClose, dtorVars, nullDeref, dropped>>

\* Client::run returns when the connection is closed (or there never was one)
RunReturn ==
  /\ Running /\ pushing = NoMsg
  /\ state \in {"closed", "none"}
  /\ m_run_thread' = "finished"
  /\ UNCHANGED <<callerVars, connVars, m_messages, peerVars, pushVars, returned,
                 recvGhost, closeGhost>>
  /\ UNCHANGED <<sendVars, dtorVars, nullDeref, dropped>>

\* ------------------------------------------------------ specification ----
Connect == \E uri \in Uris : ConnectGet(uri)

Next ==
  \/ Connect \/ ConnectSetHandler \/ ConnectOpen \/ ConnectStartThread
  \/ ConnectWait
  \/ CloseRequest \/ CloseJoin \/ ClosePurge
  \/ ReceiveCall \/ ReceiveLoopHas \/ ReceiveLoopConn \/ ReceiveCheckClosed
  \/ ReceiveDequeue
  \/ HasMessageCall \/ IsConnectedCall \/ SendCall
  \/ Destroy \/ DtorCloseRequest \/ DtorMembers
  \/ PeerReceive
  \/ PeerAccept \/ RunnerHandshakeOpen \/ RunnerHandshakeFail
  \/ PeerSend \/ PeerClose \/ onMessageBegin \/ onMessage
  \/ RunnerPeerClose \/ PeerObserveClose \/ RunnerCloseAck \/ RunReturn

Spec == Init /\ [][Next]_vars

\* the caller path is scheduled again after every sleep of receive()
ReceiveStep ==
  ReceiveLoopHas \/ ReceiveLoopConn \/ ReceiveCheckClosed \/ ReceiveDequeue

FairSpec == Spec /\ WF_vars(ReceiveStep)

ReceiveReturned == pc = "idle" /\ lastOp = "receive"

\* ------------------------------------------- the queries on their own ----
\* isConnected() and hasMessage() read one field each and change none.  Here
\* they are applied to a client whose connection is in any of the engine's
\* states and whose queue holds any messages of the connections so far.
QueuesUpTo(c) ==
  UNION {[1..n -> {m \in Msg : m[1] <= c}] : n \in 0..MaxMsgs}

InitPure ==
  /\ m_connection \in 1..MaxSess /\ sess = m_connection
  /\ state \in States
  /\ m_messages \in QueuesUpTo(m_connection)
  /\ pc = "idle" /\ m_run_thread = "running" /\ target = "ok"
  /\ handlerSet = TRUE /\ openRequested = TRUE
  /\ inflight = <<>> /\ pushing = NoMsg /\ raced = FALSE
  /\ peerOpened = FALSE /\ peerClosing = FALSE /\ peerClosedObs = FALSE
  /\ peerSent = 0 /\ nDelivered = 0 /\ returned = <<>>
  /\ lastOp = "none" /\ lastRes = "ok" /\ lastMsg = NoMsg
  /\ callHas = FALSE /\ callConn = FALSE /\ callHead = NoMsg
  /\ slept = FALSE /\ intervened = FALSE
  /\ closeCalled = FALSE /\ closeCompleted = FALSE
  /\ prevCloseCompleted = FALSE /\ purged = 0 /\ atConnect = <<>>
  /\ outflight = <<>> /\ nSent = 0 /\ peerReceived = <<>>
  /\ pendingAtClose = FALSE /\ dtor = FALSE /\ dtorConn = FALSE
  /\ nullDeref = FALSE /\ dropped = 0

NextPure == IsConnectedCall \/ HasMessageCall

PureSpec == InitPure /\ [][NextPure]_vars

\* ------------------------------------------------------------- claims ----
\* C1: before close() is called, receive() returns an empty result only
\* after it has returned every message M1..Mn the connection delivered, in
\* that order, also when the peer has closed the connection meanwhile.
C1_DrainedBeforeEmpty ==
  (ReceiveReturned /\ lastRes = "none" /\ ~closeCalled)
    => (returned = Delivered /\ m_messages = <<>>)

\* C2: the non-empty values returned by receive() within one connection are
\* always a prefix of the payloads appended by onMessage: no reordering,
\* duplication or skipping.
C2_ReturnedPrefixOfDelivered == IsPrefix(returned, Delivered)

\* C3: for a receive() called on a connection that is not closed, with no
\* step of the network path between the call and receive's own checks:
\* hasMessage() was true iff receive() does not suspend; when true it
\* returns the front message, when false it sleeps.
C3_HasMessageIffNoSuspend ==
  (m_connection # NoConn /\ callConn /\ (InReceive \/ ReceiveReturned)) =>
    /\ slept => ~callHas
    /\ (~callHas /\ ~intervened /\ pc # "recv_conn") => slept
    /\ (callHas /\ ~intervened /\ ReceiveReturned)
          => (lastRes = "msg" /\ lastMsg = callHead)

C3_Witness ==
  /\ ReceiveReturned /\ callConn /\ callHas /\ ~slept /\ ~intervened
  /\ lastRes = "msg" /\ lastMsg = callHead

\* C4: once close() has returned, isConnected() is false and the queue is
\* empty; the connect() that follows finds the queue empty and no message of
\* the earlier connection is queued or returned in the later one.
C4_NoCrossSessionLeak ==
  /\ (pc = "idle" /\ lastOp = "close" /\ lastRes = "ok")
        => (~isConnected(state) /\ m_messages = <<>>)
  /\ prevCloseCompleted =>
        /\ atConnect = <<>>
        /\ \A i \in DOMAIN m_messages : m_messages[i][1] = sess
        /\ \A i \in DOMAIN returned : returned[i][1] = sess

C4_Witness ==
  /\ prevCloseCompleted /\ purged > 0 /\ sess = 2
  /\ ReceiveReturned /\ lastRes = "msg" /\ lastMsg[1] = 2

\* C5: every connect() starts with an empty queue, however the previous
\* connection ended, and never returns a message of an older connection.
C5_QueueEmptyAtConnect ==
  /\ atConnect = <<>>
  /\ \A i \in DOMAIN returned : returned[i][1] = sess

\* C6: connect() to an unreachable target returns an error to its caller.
C6_UnreachableReportsError ==
  (pc = "idle" /\ lastOp = "connect" /\ target = "unreachable")
    => lastRes = "error"

\* C7: after a resolution failure connect() does not go on to register the
\* callback, issue the open request, start the runner or wait.
C7_ResolutionFailureStops == target = "malformed" => ~InConnect

\* C8: a receive() call whose queue holds a message or whose connection is
\* closed eventually returns, and it returns a message or the empty result,
\* never an error.
C8_ReceiveEventuallyReturns ==
  /\ (InReceive /\ (m_messages # <<>> \/ state = "closed"))
        ~> (ReceiveReturned /\ lastRes \in {"msg", "none"})
  /\ [](lastOp = "receive" => lastRes \in {"msg", "none"})

C8_Witness == ReceiveReturned /\ slept /\ lastRes = "none" /\ ~closeCalled

\* C9: whenever receive() returns, it returns the message at the front of
\* the (non-empty) queue or the connection is closed.
C9_ReturnsMessageOrClosed ==
  [][(InReceive /\ pc' = "idle") =>
       \/ lastRes' = "msg" /\ m_messages # <<>> /\ lastMsg' = Head(m_messages)
       \/ lastRes' = "none" /\ state' = "closed"]_vars

C9_Witness == ReceiveReturned /\ slept /\ lastRes = "msg" /\ state = "open"

\* C10: when connect() has returned the connection is no longer connecting,
\* and if it is open the peer's open handler has already run.
C10_ConnectBlocksUntilResolved ==
  (pc = "idle" /\ lastOp = "connect") =>
    /\ state # "connecting"
    /\ state = "open" => peerOpened

C10_Witness ==
  pc = "idle" /\ lastOp = "connect" /\ state = "open" /\ peerOpened

\* C11: when close() on an open connection has returned, Client::run has
\* returned and its thread is joined, the connection is closed, and the
\* peer's close handler has run.
C11_CloseReturnsAfterRunnerStopped ==
  (pc = "idle" /\ lastOp = "close" /\ lastRes = "ok")
    => (m_run_thread = "joined" /\ state = "closed" /\ peerClosedObs)

\* close() requested by the caller alone (the peer did not close) returned
C11_Witness ==
  /\ pc = "idle" /\ lastOp = "close" /\ lastRes = "ok"
  /\ ~peerClosing /\ peerClosedObs /\ m_run_thread = "joined"

\* C12 as stated: once the connection is closed, the peer's message handler
\* has observed every text that send() accepted, in order.
C12_EverySentTextObserved ==
  (state = "closed" /\ m_connection # NoConn) => peerReceived = SentTexts

\* C12 amended: unless the peer has itself started closing, no accepted text
\* is lost, altered or reordered: what the peer's handler observed followed by
\* what is still on its way is what send() accepted; so once the connection
\* is closed the peer has observed all of it, also when close() was called
\* while a text was still on its way.
C12_SentTextsObservedUnlessPeerCloses ==
  /\ IsPrefix(peerReceived, SentTexts)
  /\ ~peerClosing => peerReceived \o Pending = SentTexts
  /\ (state = "closed" /\ m_connection # NoConn /\ ~peerClosing)
       => peerReceived = SentTexts

\* close() was called while a sent text was still on its way, and completed
C12_Witness ==
  /\ state = "closed" /\ ~peerClosing /\ closeCompleted
  /\ pendingAtClose /\ nSent >= 1 /\ peerReceived = SentTexts

\* C13: isConnected() returns true in the states connecting, open and
\* closing, and false in the state closed.
C13_IsConnectedIffNotClosed ==
  lastOp = "isConnected" =>
    /\ state \in {"connecting", "open", "closing"} => lastRes = "true"
    /\ state = "closed" => lastRes = "false"

\* isConnected() returned true on a connection that is closing
C13_Witness == lastOp = "isConnected" /\ lastRes = "true" /\ state = "closing"

\* C14: when ~WebSocket found the connection connected, the members of the
\* client are destroyed, and the client released, only after close() has
\* completed: the connection is closed and the runner thread joined.
C14_DestroyClosesFirst ==
  (pc \in {"dtor_members", "destroyed"} /\ dtorConn)
    => (closeCompleted /\ state = "closed" /\ m_run_thread = "joined")

\* a client destroyed while connected has been released
C14_Witness == pc = "destroyed" /\ dtorConn /\ closeCompleted

\* C15: no append of onMessage is in progress while the caller path reads,
\* dequeues or purges the queue.  In particular no dequeue of receive()
\* overlaps an append (raced).
C15_QueueAccessExclusive ==
  /\ [](~raced)
  /\ [][pushing # NoMsg =>
          ~(ReceiveCall \/ ReceiveLoopHas \/ ReceiveDequeue \/ HasMessageCall
              \/ ClosePurge)]_vars

\* C16: close() reaches its purge only with the runner thread joined and no
\* append in progress; and from the purge until the next connect() the
\* thread stays joined, no append is in progress and the queue stays empty.
C16_PurgeAfterRunnerStopped ==
  /\ pc = "close_35" => (m_run_thread = "joined" /\ pushing = NoMsg)
  /\ closeCompleted =>
       (m_run_thread = "joined" /\ pushing = NoMsg /\ m_messages = <<>>)

\* a close() that discarded messages has returned, and the caller has gone on
C16_Witness ==
  /\ pc = "idle" /\ lastOp # "close" /\ closeCompleted
  /\ purged > 0 /\ nDelivered > 0 /\ m_messages = <<>>

\* C17: the message handler is set before the open request and before the
\* runner starts; no frame is read while no handler is set; and every frame
\* handed to onMessage is in the queue exactly once: until close() purges,
\* what receive() returned followed by what is queued is what onMessage was
\* given, in order.
C17_EveryFrameAppendedOnce ==
  /\ openRequested => handlerSet
  /\ (pc \in {"connect_23", "connect_25"} /\ m_connection # NoConn)
       => (handlerSet /\ openRequested)
  /\ dropped = 0
  /\ (Alive /\ ~closeCompleted) => returned \o Queued = Delivered

\* C18: receive() reaches m_messages.front() / pop() only with a message in
\* the queue.
C18_FrontOnlyOfNonEmpty == pc = "recv_48" => m_messages # <<>>

\* receive() was called with a message queued on a live connection, the
\* connection was closed before the second isConnected() check, and
\* receive() returned without touching the queue
C18_Witness ==
  /\ ReceiveReturned /\ lastRes = "none"
  /\ callHas /\ callConn /\ ~slept /\ m_messages # <<>>

\* C19: wherever the runner thread is replaced (connect(), WebSocket.cpp:23)
\* or destroyed with the client (~WebSocket), the thread started by the
\* previous connect() has been joined: m_run_thread is not joinable there.
\* (Stated for a client whose connect() obtained a connection.)
C19_RunnerJoinedBeforeReplaceOrDestroy ==
  (pc \in {"connect_23", "dtor_members"} /\ m_connection # NoConn)
    => ~joinable(m_run_thread)

\* C20: on a client that never called connect(), no operation goes through
\* the missing connection handle, and its destructor does not enter close().
C20_NeverConnectedIsSafe ==
  sess = 0 => (~nullDeref /\ pc # "dtor_close_31" /\ pc # "crashed")

TypeOK ==
  /\ pc \in {"idle", "crashed", "connect_19", "connect_21", "connect_23",
             "connect_25", "close_32", "close_35", "recv_has", "recv_conn",
             "recv_43", "recv_48", "dtor_close_31", "dtor_members",
             "destroyed"}
  /\ m_connection \in 0..MaxSess
  /\ state \in States \cup {"none"}
  /\ m_run_thread \in {"none", "running", "finished", "joined"}
  /\ sess \in 0..MaxSess
  /\ peerSent \in 0..MaxMsgs /\ nDelivered \in 0..MaxMsgs
  /\ lastRes \in {"ok", "error", "none", "msg", "true", "false"}
====
